---- MODULE Spec2Model ----
(***************************************************************************)
(* Model of sporco's alternating dictionary-learning driver                *)
(* (sporco/admm/dictlrn.py: IterStatsConfig, DictLearn) and of the way     *)
(* BPDNDictLearn (sporco/admm/bpdndl.py) wires its two ADMM sub-engines.   *)
(*                                                                         *)
(* DictLearn.solve() is modelled call by call: every statement of its loop *)
(* body that calls into a sub-engine, the evaluate() hook or the stats     *)
(* builder is one step, and pc[o] is the position of driver object o in    *)
(* solve().  The sub-engines (bpdn.BPDN, cmod.CnstrMOD) and util.Timer are *)
(* not part of the sources at hand; they are modelled from their           *)
(* documented interface as deterministic engines over a small value space  *)
(* and as a stopwatch over a global integer clock.                         *)
(***************************************************************************)
EXTENDS Integers, Sequences, FiniteSets, TLC

\* ------------------------------------------------------------------ bounds
\* Number of distinct values a primal variable (dictionary, coefficients) takes.
NVal == 2
\* Cap on the outer iteration counter self.j.
MaxJ == 3
\* Cap on the number of solve() calls made on one driver object.
MaxCalls == 2
\* Cap on the global clock.
MaxTime == 1

Vals == 0 .. (NVal - 1)

\* Python's None, as a value no engine or clock produces.
NoneVal == 0 - 1
\* Marker for a lookup that raises (AttributeError, KeyError, TypeError).
Raised == 0 - 2

\* ------------------------------------------------- sequences and mappings
IndexOf(s, e) == CHOOSE i \in 1 .. Len(s) : s[i] = e
Last(s) == s[Len(s)]
\* The empty mapping (a Python {}).
EmptyMap == << >>
\* A mapping with the single entry k : v.
OneMap(k, v) == [f \in {k} |-> v]
\* Python's getattr(rec, name) / dct[name]: the value, or a raise.
Lookup(m, k) == IF k \in DOMAIN m THEN m[k] ELSE Raised

\* --------------------------------------------------------- IterStatsConfig
\* The configuration DictLearn.__init__ builds when isc is None.
DefaultISC ==
  [ isfld  |-> << "Iter", "ObjFunX", "XPrRsdl", "XDlRsdl", "XRho",
                  "ObjFunD", "DPrRsdl", "DDlRsdl", "DRho", "Time" >>,
    isxmap |-> [ f \in {"ObjFunX", "XPrRsdl", "XDlRsdl", "XRho"} |->
                 CASE f = "ObjFunX" -> "ObjFun"
                   [] f = "XPrRsdl" -> "PrimalRsdl"
                   [] f = "XDlRsdl" -> "DualRsdl"
                   [] f = "XRho"    -> "Rho" ],
    isdmap |-> [ f \in {"ObjFunD", "DPrRsdl", "DDlRsdl", "DRho"} |->
                 CASE f = "ObjFunD" -> "DFid"
                   [] f = "DPrRsdl" -> "PrimalRsdl"
                   [] f = "DDlRsdl" -> "DualRsdl"
                   [] f = "DRho"    -> "Rho" ],
    evlmap |-> EmptyMap,
    hdrtxt |-> << "Itn", "FncX", "r_X", "s_X", "rho_X",
                  "FncD", "r_D", "s_D", "rho_D" >>,
    hdrmap |-> [ Itn |-> "Iter", FncX |-> "ObjFunX", r_X |-> "XPrRsdl",
                 s_X |-> "XDlRsdl", rho_X |-> "XRho", FncD |-> "ObjFunD",
                 r_D |-> "DPrRsdl", s_D |-> "DDlRsdl", rho_D |-> "DRho" ] ]

\* The configuration BPDNDictLearn.__init__ hands to the parent constructor.
BPDNISC ==
  [ isfld  |-> << "Iter", "ObjFun", "DFid", "RegL1", "Cnstr", "XPrRsdl",
                  "XDlRsdl", "XRho", "DPrRsdl", "DDlRsdl", "DRho", "Time" >>,
    isxmap |-> [ f \in {"ObjFun", "DFid", "RegL1", "XPrRsdl", "XDlRsdl", "XRho"} |->
                 CASE f = "ObjFun"  -> "ObjFun"
                   [] f = "DFid"    -> "DFid"
                   [] f = "RegL1"   -> "RegL1"
                   [] f = "XPrRsdl" -> "PrimalRsdl"
                   [] f = "XDlRsdl" -> "DualRsdl"
                   [] f = "XRho"    -> "Rho" ],
    isdmap |-> [ f \in {"Cnstr", "DPrRsdl", "DDlRsdl", "DRho"} |->
                 CASE f = "Cnstr"   -> "Cnstr"
                   [] f = "DPrRsdl" -> "PrimalRsdl"
                   [] f = "DDlRsdl" -> "DualRsdl"
                   [] f = "DRho"    -> "Rho" ],
    evlmap |-> EmptyMap,
    hdrtxt |-> << "Itn", "Fnc", "DFid", "l1", "Cnstr", "r_X", "s_X",
                  "rho_X", "r_D", "s_D", "rho_D" >>,
    hdrmap |-> [ Itn |-> "Iter", Fnc |-> "ObjFun", DFid |-> "DFid",
                 l1 |-> "RegL1", Cnstr |-> "Cnstr", r_X |-> "XPrRsdl",
                 s_X |-> "XDlRsdl", rho_X |-> "XRho", r_D |-> "DPrRsdl",
                 s_D |-> "DDlRsdl", rho_D |-> "DRho" ] ]

\* A mutant of FieldValue: the D-step map is consulted before the X-step map.
FieldValue_DFirst(c, fnm, j, t, isx, isd, evl) ==
  IF fnm \in DOMAIN c.isdmap THEN Lookup(isd, c.isdmap[fnm])
  ELSE IF fnm \in DOMAIN c.isxmap THEN Lookup(isx, c.isxmap[fnm])
  ELSE IF fnm \in DOMAIN c.evlmap THEN Lookup(evl, fnm)
  ELSE IF fnm = "Iter" THEN j
  ELSE IF fnm = "Time" THEN t
  ELSE NoneVal

\* The value iterstats() appends to vlst for field fnm (the if/elif chain).
FieldValue(c, fnm, j, t, isx, isd, evl) ==
  IF fnm \in DOMAIN c.isxmap THEN Lookup(isx, c.isxmap[fnm])
  ELSE IF fnm \in DOMAIN c.isdmap THEN Lookup(isd, c.isdmap[fnm])
  ELSE IF fnm \in DOMAIN c.evlmap THEN Lookup(evl, fnm)
  ELSE IF fnm = "Iter" THEN j
  ELSE IF fnm = "Time" THEN t
  ELSE NoneVal

\* IterStatsConfig.iterstats: the namedtuple as the tuple of its values in the
\* order of IterationStats._fields, or a raise when a lookup fails.
IterStats(c, j, t, isx, isd, evl) ==
  LET vlst == [ i \in 1 .. Len(c.isfld) |->
                  FieldValue(c, c.isfld[i], j, t, isx, isd, evl) ]
  IN  IF \E i \in 1 .. Len(c.isfld) : vlst[i] = Raised
      THEN [ok |-> FALSE, val |-> << >>]
      ELSE [ok |-> TRUE, val |-> vlst]

\* getattr(itst, fnm) on a namedtuple built for configuration c.
Field(c, itst, fnm) == itst[IndexOf(c.isfld, fnm)]

\* What the status display has printed: lines, each a header line, a
\* separator line or a status line with the values of its columns.
Line(kind, vals) == [kind |-> kind, vals |-> vals]
\* IterStatsConfig.printseparator
PrintSeparator(printed) == Append(printed, Line("separator", << >>))
\* IterStatsConfig.printheader: the header string, then the separator.
PrintHeader(printed) == PrintSeparator(Append(printed, Line("header", << >>)))
\* IterStatsConfig.printiterstats: the record's values in column order.
PrintIterStats(c, printed, itst) ==
  Append(printed,
         Line("status", [ i \in 1 .. Len(c.hdrtxt) |->
                            Field(c, itst, c.hdrmap[c.hdrtxt[i]]) ]))

\* ------------------------------------------------------------- sub-engines
\* An engine holds its own primal variable P, the other engine's current
\* estimate O handed in through its setter, and its itstat list.
NewEngine(p, o) == [P |-> p, O |-> o, itstat |-> << >>]

\* The coding engine's primal update: a deterministic function of (P, O).
XUpdate(p, o) == (p + o + 1) % NVal
\* The update engine's primal update.
DUpdate(p, o) == (2 * p + o + 1) % NVal

\* The per-iteration record a coding engine appends after its update.
XStats(p, o, k) ==
  [ ObjFun |-> p, DFid |-> o, RegL1 |-> (p + o) % NVal,
    PrimalRsdl |-> k, DualRsdl |-> (p + k) % NVal, Rho |-> 1 ]
\* The per-iteration record an update engine appends after its update.
DStats(p, o, k) ==
  [ DFid |-> (p + o) % NVal, Cnstr |-> p,
    PrimalRsdl |-> (o + k) % NVal, DualRsdl |-> k, Rho |-> 1 ]

\* xstep.solve() with the inner budget MaxMainIter = 1 BPDNDictLearn configures.
XSolve(e) ==
  LET p == XUpdate(e.P, e.O)
  IN  [e EXCEPT !.P = p, !.itstat = Append(@, XStats(p, e.O, Len(e.itstat)))]
\* dstep.solve(), likewise one inner iteration.
DSolve(e) ==
  LET p == DUpdate(e.P, e.O)
  IN  [e EXCEPT !.P = p, !.itstat = Append(@, DStats(p, e.O, Len(e.itstat)))]

\* The accessors of the driver's engine interface.
EngGetCoef(e) == e.P
EngGetDict(e) == e.P
EngSetCoef(e, v) == [e EXCEPT !.O = v]
EngSetDict(e, v) == [e EXCEPT !.O = v]

\* cmod.getPcn(...)(D0): the projection of a dictionary onto the constraint
\* set, which leaves a dictionary of the set as it is.
Pcn(d) == (d * d) % NVal

\* util.Timer: start() resets the origin, elapsed() is the time since then.
TimerStart(clock) == clock
TimerElapsed(origin, clock) == clock - origin

\* ------------------------------------------------------------------ options
\* An options tree: a leaf holds a value, a dict holds its entries by key.
\* Python's False and True are the integers 0 and 1.
Leaf(v) == [leaf |-> TRUE, v |-> v, kids |-> EmptyMap]
Dict(m) == [leaf |-> FALSE, v |-> 0, kids |-> m]

\* ConstrainedDict.update: the entries of d are written over those of self,
\* a dict over a dict entry by entry.
RECURSIVE CDictUpdate(_, _)
CDictUpdate(self, d) ==
  Dict([ k \in DOMAIN self.kids |->
           IF k \in DOMAIN d.kids
           THEN IF ~ self.kids[k].leaf /\ ~ d.kids[k].leaf
                THEN CDictUpdate(self.kids[k], d.kids[k])
                ELSE d.kids[k]
           ELSE self.kids[k] ])

\* ConstrainedDict.__init__: a copy of the class defaults updated with d.
CDictNew(defaults, d) == CDictUpdate(defaults, d)

\* opt[path] on an options tree, and whether the tree has that path.
RECURSIVE CDictGet(_, _)
CDictGet(t, path) ==
  IF path = << >> THEN t ELSE CDictGet(t.kids[Head(path)], Tail(path))
RECURSIVE CDictHas(_, _)
CDictHas(t, path) ==
  \/ path = << >>
  \/ /\ ~ t.leaf
     /\ Head(path) \in DOMAIN t.kids
     /\ CDictHas(t.kids[Head(path)], Tail(path))

\* DictLearn.Options.defaults
DictLearnDefaults ==
  [ Verbose |-> Leaf(0), StatusHeader |-> Leaf(1), MaxMainIter |-> Leaf(1000) ]

\* BPDNDictLearn.Options.defaults: those of DictLearn.Options with copies of
\* the two engines' default options under 'BPDN' and 'CMOD'.
BPDNDLDefaults(bdef, cdef) ==
  Dict([ k \in DOMAIN DictLearnDefaults \cup {"BPDN", "CMOD"} |->
           IF k = "BPDN" THEN bdef
           ELSE IF k = "CMOD" THEN cdef
           ELSE DictLearnDefaults[k] ])

\* The engine options BPDNDictLearn.Options.__init__ writes over the engines'
\* own defaults (of 'AutoRho' only 'Period' is kept).
BPDNOverride ==
  Dict([ MaxMainIter |-> Leaf(1), AutoRho |-> Dict([Period |-> Leaf(10)]) ])
CMODOverride ==
  Dict([ MaxMainIter |-> Leaf(1), AutoRho |-> Dict([Period |-> Leaf(10)]),
         AuxVarObj |-> Leaf(0) ])

\* A mutant of BPDNDLOptions: the caller's options are written first and
\* the class's engine options over them.
BPDNDLOptions_ClassLast(opt0, bdef, cdef) ==
  CDictUpdate(CDictNew(BPDNDLDefaults(bdef, cdef), opt0),
              Dict([ BPDN |-> CDictNew(bdef, BPDNOverride),
                     CMOD |-> CDictNew(cdef, CMODOverride) ]))

\* BPDNDictLearn.Options.__init__(opt): DictLearn.Options.__init__ with the
\* class's engine options, then self.update(opt).
BPDNDLOptions(opt0, bdef, cdef) ==
  CDictUpdate(CDictNew(BPDNDLDefaults(bdef, cdef),
                       Dict([ BPDN |-> CDictNew(bdef, BPDNOverride),
                              CMOD |-> CDictNew(cdef, CMODOverride) ])),
              opt0)

\* -------------------------------------------------------------------- state
Objs == {1, 2}

VARIABLES
  now,      \* the wall clock
  isc,      \* the IterStatsConfig both drivers were constructed with
  xstep,    \* xstep[o]: the coding engine of driver o
  dstep,    \* dstep[o]: the update engine of driver o
  opt,      \* opt[o]: the driver's options
  itstat,   \* itstat[o]: self.itstat, the list of combined records
  jself,    \* jself[o]: self.j
  runtime,  \* runtime[o]: self.runtime
  timer,    \* timer[o]: the origin of self.timer
  pc,       \* pc[o]: position of driver o in solve(), "idle" outside it
  jloc,     \* jloc[o]: solve()'s local loop variable j, possibly unbound
  jend,     \* jend[o]: the end of the range() the loop iterates over
  evl,      \* evl[o]: solve()'s local evl
  ret,      \* ret[o]: what the last call on driver o returned
  err,      \* err[o]: the exception the last call on driver o raised
  lastop,   \* lastop[o]: the last method called on driver o
  calls,    \* calls[o]: the MaxMainIter of every solve() call made so far
  pre,      \* pre[o]: the driver as it was when its last solve() was entered
  trace,    \* trace[o]: the calls solve() has made out of the driver so far
  ipre,     \* ipre[o]: the driver as it was when its last iteration began
  out,      \* out[o]: the lines the last solve() on driver o has printed
  stats,    \* stats[o]: what getitstat() returned, if it was the last call
  isIn,     \* arguments of the last direct iterstats() call
  isOut,    \* its result
  optIn,    \* arguments of the last direct BPDNDictLearn.Options() call
  optOut    \* its result

drv == << now, isc, xstep, dstep, opt, itstat, jself, runtime, timer, pc,
          jloc, jend, evl, ret, err, lastop, calls, pre, trace, ipre, out,
          stats >>
vars == << drv, isIn, isOut, optIn, optOut >>

Unbound == [bound |-> FALSE, v |-> 0]
Bound(n) == [bound |-> TRUE, v |-> n]

Snapshot(o) ==
  [ j |-> jself[o], nrec |-> Len(itstat[o]),
    xk |-> Len(xstep[o].itstat), dk |-> Len(dstep[o].itstat),
    dict |-> EngGetDict(dstep[o]), coef |-> EngGetCoef(xstep[o]),
    ntrace |-> Len(trace[o]) ]

\* What the claims compare of a driver at the start of an outer iteration:
\* the engines' primal variables and iteration counts, the records, self.j.
IterSnapshot(x, d, recs, j) ==
  [ xP |-> x.P, xk |-> Len(x.itstat), dP |-> d.P, dk |-> Len(d.itstat),
    recs |-> recs, j |-> j ]

\* No getitstat() result is held.
NoStats == [held |-> FALSE, none |-> FALSE, cols |-> << >>]

\* DictLearn.Options.defaults
DefaultOpt == [Verbose |-> FALSE, StatusHeader |-> TRUE, MaxMainIter |-> 1000]

\* BPDNDictLearn.__init__ followed by DictLearn.__init__: the coding engine
\* is built on the initial dictionary D0, the update engine on the coding
\* engine's coefficients with Y0 = D0; construction takes c0 clock ticks.
Construct(d0, x0, c0, c) ==
  LET dn == Pcn(d0) IN
    /\ now = c0
    /\ isc = c
    /\ xstep = [o \in Objs |-> NewEngine(x0, dn)]
    /\ dstep = [o \in Objs |-> NewEngine(dn, x0)]
    /\ opt = [o \in Objs |-> DefaultOpt]
    /\ itstat = [o \in Objs |-> << >>]
    /\ jself = [o \in Objs |-> 0]
    /\ runtime = [o \in Objs |-> c0]
    /\ timer = [o \in Objs |-> TimerStart(c0)]
    /\ pc = [o \in Objs |-> "idle"]
    /\ jloc = [o \in Objs |-> Unbound]
    /\ jend = [o \in Objs |-> 0]
    /\ evl = [o \in Objs |-> EmptyMap]
    /\ ret = [o \in Objs |-> NoneVal]
    /\ err = [o \in Objs |-> "none"]
    /\ lastop = [o \in Objs |-> "init"]
    /\ calls = [o \in Objs |-> << >>]
    /\ pre = [o \in Objs |-> [ j |-> 0, nrec |-> 0, xk |-> 0, dk |-> 0,
                               dict |-> dn, coef |-> x0, ntrace |-> 0 ]]
    /\ trace = [o \in Objs |-> << >>]
    /\ ipre = [o \in Objs |-> IterSnapshot(NewEngine(x0, dn), NewEngine(dn, x0),
                                            << >>, 0)]
    /\ out = [o \in Objs |-> << >>]
    /\ stats = [o \in Objs |-> NoStats]

\* The initial dictionary, the initial coefficients, the construction time
\* and the statistics configuration range over small sets.
InitDriver ==
  \E d0 \in Vals, x0 \in Vals, c0 \in {0, 1}, c \in {DefaultISC, BPDNISC} :
    Construct(d0, x0, c0, c)

NoArgs == [ c |-> DefaultISC, j |-> 0, t |-> 0, isx |-> EmptyMap,
            isd |-> EmptyMap, evl |-> EmptyMap ]
NoCall == [called |-> FALSE, ok |-> FALSE, val |-> << >>]
NoOptArgs == [opt |-> Dict(EmptyMap), bdef |-> Dict(EmptyMap), cdef |-> Dict(EmptyMap)]
NoOptCall == [called |-> FALSE, val |-> Dict(EmptyMap)]

Init ==
  /\ InitDriver
  /\ isIn = NoArgs /\ isOut = NoCall
  /\ optIn = NoOptArgs /\ optOut = NoOptCall

\* ------------------------------------------------------------ DictLearn.solve
AllIdle == \A q \in Objs : pc[q] = "idle"

\* The calls solve() makes out of the driver, as recorded in trace.
Ev(name, it, v) == [op |-> name, it |-> it, val |-> v]

\* A mutant of StepAfter: the D update is started before the coefficients
\* of the X update have been handed over.
StepAfter_DSolveFirst(p) ==
  CASE p = "xsolve"   -> "dsolve"
    [] p = "dsolve"   -> "setcoef"
    [] p = "setcoef"  -> "setdict"
    [] p = "setdict"  -> "evaluate"
    [] p = "evaluate" -> "record"

\* The statement that follows statement p in the body of the for loop.
StepAfter(p) ==
  CASE p = "xsolve"   -> "setcoef"
    [] p = "setcoef"  -> "dsolve"
    [] p = "dsolve"   -> "setdict"
    [] p = "setdict"  -> "evaluate"
    [] p = "evaluate" -> "record"

\* A mutant of CounterAfter: the counter is left at the last iteration run.
CounterAfter_NoIncrement(j) == j

\* self.j = j+1
CounterAfter(j) == j + 1

\* A mutant of AppendRecord: the new record takes the place of the list.
AppendRecord_Replace(recs, itst) == << itst >>

\* self.itstat.append(itst)
AppendRecord(recs, itst) == Append(recs, itst)

\* A mutant of CoefArg: the coefficients the update engine already holds.
CoefArg_Stale(o) == dstep[o].O

\* The argument of dstep.setcoef(...): self.xstep.getcoef()
CoefArg(o) == EngGetCoef(xstep[o])

\* A mutant of DictArg: the dictionary the coding engine already holds.
DictArg_Stale(o) == xstep[o].O

\* The argument of xstep.setdict(...): self.dstep.getdict()
DictArg(o) == EngGetDict(dstep[o])

\* DictLearn.evaluate: the base class hook returns None.
Evaluate(o) == EmptyMap

\* A mutant of LoopFirst: every solve() call starts counting at zero.
LoopFirst_Zero(o) == 0

\* The bounds of range(self.j, self.j + self.opt['MaxMainIter']).
LoopFirst(o) == jself[o]
LoopEnd(o, m) == jself[o] + m

\* A mutant of LoopContinues: the loop is left after its first pass.
LoopContinues_StopEarly(o) == FALSE

\* Whether range() holds another j after the current one.
LoopContinues(o) == jloc[o].v + 1 < jend[o]

\* A mutant of DriverGetDict: the accessor reads the wrong engine.
DriverGetDict_WrongEngine(o) == EngGetCoef(xstep[o])

\* DictLearn.getdict: return self.dstep.getdict()
DriverGetDict(o) == EngGetDict(dstep[o])

\* DictLearn.getcoef: return self.xstep.getcoef()
DriverGetCoef(o) == EngGetCoef(xstep[o])

\* opt['MaxMainIter'] = m; solve() up to the first statement of the loop:
\* the timer is reset and range(self.j, self.j + m) is fixed.
SolveBegin(o, m) ==
  /\ AllIdle
  /\ Len(calls[o]) < MaxCalls
  /\ jself[o] + m <= MaxJ
  /\ opt' = [opt EXCEPT ![o].MaxMainIter = m]
  /\ timer' = [timer EXCEPT ![o] = TimerStart(now)]
  /\ jend' = [jend EXCEPT ![o] = LoopEnd(o, m)]
  /\ jloc' = [jloc EXCEPT ![o] =
                IF LoopFirst(o) < LoopEnd(o, m) THEN Bound(LoopFirst(o)) ELSE @]
  /\ pc' = [pc EXCEPT ![o] =
              IF LoopFirst(o) < LoopEnd(o, m) THEN "xsolve" ELSE "finish"]
  /\ calls' = [calls EXCEPT ![o] = Append(@, m)]
  /\ pre' = [pre EXCEPT ![o] = Snapshot(o)]
  /\ lastop' = [lastop EXCEPT ![o] = "solve"]
  /\ err' = [err EXCEPT ![o] = "none"]
  /\ ret' = [ret EXCEPT ![o] = NoneVal]
  /\ stats' = [stats EXCEPT ![o] = NoStats]
  /\ ipre' = [ipre EXCEPT ![o] =
                IterSnapshot(xstep[o], dstep[o], itstat[o], jself[o])]
  /\ out' = [out EXCEPT ![o] =
               IF opt[o].Verbose /\ opt[o].StatusHeader
               THEN PrintHeader(<< >>) ELSE << >>]
  /\ UNCHANGED << isIn, isOut, optIn, optOut, now, isc, xstep, dstep, itstat, jself, runtime, evl, trace >>

\* self.xstep.solve()
XSolveStep(o) ==
  /\ pc[o] = "xsolve"
  /\ xstep' = [xstep EXCEPT ![o] = XSolve(@)]
  /\ trace' = [trace EXCEPT ![o] =
                 Append(@, Ev("xstep.solve", jloc[o].v, EngGetCoef(xstep'[o])))]
  /\ pc' = [pc EXCEPT ![o] = StepAfter("xsolve")]
  /\ UNCHANGED << isIn, isOut, optIn, optOut, ipre, out, stats,
                  now, isc, dstep, opt, itstat, jself, runtime, timer, jloc,
                  jend, evl, ret, err, lastop, calls, pre >>

\* self.dstep.setcoef(self.xstep.getcoef())
SetCoefStep(o) ==
  /\ pc[o] = "setcoef"
  /\ dstep' = [dstep EXCEPT ![o] = EngSetCoef(@, CoefArg(o))]
  /\ trace' = [trace EXCEPT ![o] =
                 Append(@, Ev("dstep.setcoef", jloc[o].v, CoefArg(o)))]
  /\ pc' = [pc EXCEPT ![o] = StepAfter("setcoef")]
  /\ UNCHANGED << isIn, isOut, optIn, optOut, ipre, out, stats,
                  now, isc, xstep, opt, itstat, jself, runtime, timer, jloc,
                  jend, evl, ret, err, lastop, calls, pre >>

\* self.dstep.solve()
DSolveStep(o) ==
  /\ pc[o] = "dsolve"
  /\ dstep' = [dstep EXCEPT ![o] = DSolve(@)]
  /\ trace' = [trace EXCEPT ![o] =
                 Append(@, Ev("dstep.solve", jloc[o].v, EngGetDict(dstep'[o])))]
  /\ pc' = [pc EXCEPT ![o] = StepAfter("dsolve")]
  /\ UNCHANGED << isIn, isOut, optIn, optOut, ipre, out, stats,
                  now, isc, xstep, opt, itstat, jself, runtime, timer, jloc,
                  jend, evl, ret, err, lastop, calls, pre >>

\* self.xstep.setdict(self.dstep.getdict())
SetDictStep(o) ==
  /\ pc[o] = "setdict"
  /\ xstep' = [xstep EXCEPT ![o] = EngSetDict(@, DictArg(o))]
  /\ trace' = [trace EXCEPT ![o] =
                 Append(@, Ev("xstep.setdict", jloc[o].v, DictArg(o)))]
  /\ pc' = [pc EXCEPT ![o] = StepAfter("setdict")]
  /\ UNCHANGED << isIn, isOut, optIn, optOut, ipre, out, stats,
                  now, isc, dstep, opt, itstat, jself, runtime, timer, jloc,
                  jend, evl, ret, err, lastop, calls, pre >>

\* evl = self.evaluate()
EvaluateStep(o) ==
  /\ pc[o] = "evaluate"
  /\ evl' = [evl EXCEPT ![o] = Evaluate(o)]
  /\ trace' = [trace EXCEPT ![o] = Append(@, Ev("evaluate", jloc[o].v, NoneVal))]
  /\ pc' = [pc EXCEPT ![o] = StepAfter("evaluate")]
  /\ UNCHANGED << isIn, isOut, optIn, optOut, ipre, out, stats,
                  now, isc, xstep, dstep, opt, itstat, jself, runtime, timer,
                  jloc, jend, ret, err, lastop, calls, pre >>

\* t = self.timer.elapsed(); itst = self.isc.iterstats(...);
\* self.itstat.append(itst); the status line if Verbose; then the for
\* statement takes the next j of the range or leaves the loop.  A raise
\* inside iterstats leaves solve().
RecordStep(o) ==
  /\ pc[o] = "record"
  /\ LET t    == TimerElapsed(timer[o], now)
         itst == IterStats(isc, jloc[o].v, t, Last(xstep[o].itstat),
                           Last(dstep[o].itstat), evl[o])
     IN  IF itst.ok
         THEN /\ itstat' = [itstat EXCEPT ![o] = AppendRecord(@, itst.val)]
              /\ out' = [out EXCEPT ![o] =
                           IF opt[o].Verbose
                           THEN PrintIterStats(isc, @, itst.val) ELSE @]
              /\ trace' = [trace EXCEPT ![o] =
                             Append(@, Ev("append", jloc[o].v, NoneVal))]
              /\ IF LoopContinues(o)
                 THEN /\ jloc' = [jloc EXCEPT ![o] = Bound(@.v + 1)]
                      /\ pc' = [pc EXCEPT ![o] = "xsolve"]
                      /\ ipre' = [ipre EXCEPT ![o] =
                                    IterSnapshot(xstep[o], dstep[o],
                                                 itstat'[o], jself[o])]
                 ELSE /\ pc' = [pc EXCEPT ![o] = "finish"]
                      /\ UNCHANGED << jloc, ipre >>
              /\ UNCHANGED err
         ELSE /\ err' = [err EXCEPT ![o] = "LookupError"]
              /\ pc' = [pc EXCEPT ![o] = "idle"]
              /\ jloc' = [jloc EXCEPT ![o] = Unbound]
              /\ UNCHANGED << itstat, trace, ipre, out >>
  /\ UNCHANGED << isIn, isOut, optIn, optOut, stats,
                  now, isc, xstep, dstep, opt, jself, runtime, timer, jend,
                  evl, ret, lastop, calls, pre >>

\* The statements after the loop: self.runtime += self.timer.elapsed();
\* self.j = j+1, which raises when the loop never bound j; return
\* self.getdict().  The local j ends with the call.
Finish(o) ==
  /\ pc[o] = "finish"
  /\ runtime' = [runtime EXCEPT ![o] = @ + TimerElapsed(timer[o], now)]
  /\ IF jloc[o].bound
     THEN /\ jself' = [jself EXCEPT ![o] = CounterAfter(jloc[o].v)]
          /\ out' = [out EXCEPT ![o] =
                       IF opt[o].Verbose /\ opt[o].StatusHeader
                       THEN PrintSeparator(@) ELSE @]
          /\ ret' = [ret EXCEPT ![o] = DriverGetDict(o)]
          /\ UNCHANGED err
     ELSE /\ err' = [err EXCEPT ![o] = "UnboundLocalError"]
          /\ UNCHANGED << jself, out, ret >>
  /\ jloc' = [jloc EXCEPT ![o] = Unbound]
  /\ pc' = [pc EXCEPT ![o] = "idle"]
  /\ UNCHANGED << isIn, isOut, optIn, optOut, ipre, stats,
                  now, isc, xstep, dstep, opt, itstat, timer, jend, evl,
                  lastop, calls, pre, trace >>

\* DictLearn.getdict
GetDict(o) ==
  /\ AllIdle
  /\ lastop[o] # "getdict"
  /\ ret' = [ret EXCEPT ![o] = DriverGetDict(o)]
  /\ err' = [err EXCEPT ![o] = "none"]
  /\ lastop' = [lastop EXCEPT ![o] = "getdict"]
  /\ stats' = [stats EXCEPT ![o] = NoStats]
  /\ UNCHANGED << isIn, isOut, optIn, optOut, ipre, out,
                  now, isc, xstep, dstep, opt, itstat, jself, runtime, timer,
                  pc, jloc, jend, evl, calls, pre, trace >>

\* DictLearn.getcoef
GetCoef(o) ==
  /\ AllIdle
  /\ lastop[o] # "getcoef"
  /\ ret' = [ret EXCEPT ![o] = DriverGetCoef(o)]
  /\ err' = [err EXCEPT ![o] = "none"]
  /\ lastop' = [lastop EXCEPT ![o] = "getcoef"]
  /\ stats' = [stats EXCEPT ![o] = NoStats]
  /\ UNCHANGED << isIn, isOut, optIn, optOut, ipre, out,
                  now, isc, xstep, dstep, opt, itstat, jself, runtime, timer,
                  pc, jloc, jend, evl, calls, pre, trace >>

\* A mutant of DriverGetItStat: the records are returned as they are kept,
\* one tuple per iteration.
DriverGetItStat_Rows(o) ==
  IF Len(itstat[o]) = 0
  THEN [held |-> TRUE, none |-> TRUE, cols |-> << >>]
  ELSE [ held |-> TRUE, none |-> FALSE, cols |-> itstat[o] ]

\* DictLearn.getitstat: None without records, else one IterationStats tuple
\* whose entry l lists entry l of every record.
DriverGetItStat(o) ==
  IF Len(itstat[o]) = 0
  THEN [held |-> TRUE, none |-> TRUE, cols |-> << >>]
  ELSE [ held |-> TRUE, none |-> FALSE,
         cols |-> [ l \in 1 .. Len(itstat[o][1]) |->
                      [ k \in 1 .. Len(itstat[o]) |-> itstat[o][k][l] ] ] ]

\* DictLearn.getitstat
GetItStat(o) ==
  /\ AllIdle
  /\ lastop[o] # "getitstat"
  /\ stats' = [stats EXCEPT ![o] = DriverGetItStat(o)]
  /\ ret' = [ret EXCEPT ![o] = NoneVal]
  /\ err' = [err EXCEPT ![o] = "none"]
  /\ lastop' = [lastop EXCEPT ![o] = "getitstat"]
  /\ UNCHANGED << isIn, isOut, optIn, optOut, now, isc, xstep, dstep, opt,
                  itstat, jself, runtime, timer, pc, jloc, jend, evl, calls,
                  pre, trace, ipre, out >>

\* The caller sets opt['Verbose'] and opt['StatusHeader'] between calls.
SetVerbose(o, v, h) ==
  /\ AllIdle
  /\ << opt[o].Verbose, opt[o].StatusHeader >> # << v, h >>
  /\ opt' = [opt EXCEPT ![o].Verbose = v, ![o].StatusHeader = h]
  /\ UNCHANGED << isIn, isOut, optIn, optOut, now, isc, xstep, dstep, itstat,
                  jself, runtime, timer, pc, jloc, jend, evl, ret, err,
                  lastop, calls, pre, trace, ipre, out, stats >>

\* A statement of the loop body raises before it has changed anything: the
\* exception leaves solve(), which has no handler.
Raise(o) ==
  /\ pc[o] \in {"xsolve", "setcoef", "dsolve", "setdict", "evaluate", "record"}
  /\ err' = [err EXCEPT ![o] = "Exception"]
  /\ pc' = [pc EXCEPT ![o] = "idle"]
  /\ jloc' = [jloc EXCEPT ![o] = Unbound]
  /\ UNCHANGED << isIn, isOut, optIn, optOut, now, isc, xstep, dstep, opt,
                  itstat, jself, runtime, timer, jend, evl, ret, lastop,
                  calls, pre, trace, ipre, out, stats >>

\* The wall clock advances, inside solve() and between calls.
Tick ==
  /\ now < MaxTime
  /\ now' = now + 1
  /\ UNCHANGED << isIn, isOut, optIn, optOut, ipre, out, stats,
                  isc, xstep, dstep, opt, itstat, jself, runtime, timer, pc,
                  jloc, jend, evl, ret, err, lastop, calls, pre, trace >>

\* One step of solve() on driver o.
SolveStep(o) ==
  \/ XSolveStep(o)
  \/ SetCoefStep(o)
  \/ DSolveStep(o)
  \/ SetDictStep(o)
  \/ EvaluateStep(o)
  \/ RecordStep(o)
  \/ Finish(o)

\* One driver under the running clock.
Next ==
  \/ Tick
  \/ \E m \in 0 .. MaxJ : SolveBegin(1, m)
  \/ XSolveStep(1)
  \/ SetCoefStep(1)
  \/ DSolveStep(1)
  \/ SetDictStep(1)
  \/ EvaluateStep(1)
  \/ RecordStep(1)
  \/ Finish(1)
  \/ GetDict(1)
  \/ GetCoef(1)
  \/ GetItStat(1)

Spec == Init /\ [][Next]_vars

\* The same driver when every step of a running solve() is eventually taken:
\* solve() is straight-line code over sub-engine calls that return.
FairSpec == Spec /\ WF_vars(SolveStep(1))

\* Two identically constructed drivers, solve() called on them in any order
\* by one single-threaded caller; the clock stands still.
NextPair ==
  \E o \in Objs :
    \/ \E m \in 0 .. MaxJ : SolveBegin(o, m)
    \/ SolveStep(o)

PairSpec == Init /\ [][NextPair]_vars

\* One driver whose engines, accessors, evaluate() and statistics build may
\* raise; the clock stands still.
NextFail ==
  \/ \E m \in 0 .. MaxJ : SolveBegin(1, m)
  \/ XSolveStep(1)
  \/ SetCoefStep(1)
  \/ DSolveStep(1)
  \/ SetDictStep(1)
  \/ EvaluateStep(1)
  \/ RecordStep(1)
  \/ Finish(1)
  \/ Raise(1)

FailSpec == Init /\ [][NextFail]_vars

\* One driver whose caller chooses the status display options between
\* calls; the clock stands still.
NextPrint ==
  \/ \E v \in BOOLEAN, h \in BOOLEAN : SetVerbose(1, v, h)
  \/ \E m \in 0 .. MaxJ : SolveBegin(1, m)
  \/ XSolveStep(1)
  \/ SetCoefStep(1)
  \/ DSolveStep(1)
  \/ SetDictStep(1)
  \/ EvaluateStep(1)
  \/ RecordStep(1)
  \/ Finish(1)

PrintSpec == Init /\ [][NextPrint]_vars

\* ------------------------------------------------- iterstats() on its own
\* Field names and source names the synthetic configurations are built from.
TestFields == {"Iter", "ObjFun", "Cnstr", "Eval", "Time"}
TestFieldLists == { << "Iter", "ObjFun", "Cnstr", "Eval", "Time" >>,
                    << "Time", "Eval", "Extra", "Iter" >> }
\* The mappings with at most one entry from keys K to names V.
SmallMaps(K, V) == {EmptyMap} \cup {OneMap(k, v) : k \in K, v \in V}
\* Synthetic X-step and D-step records with known, distinct values.
TestIsx == [ObjFun |-> 10, Rho |-> 11]
TestIsd == [Cnstr |-> 20, Rho |-> 21]
\* What evaluate() may return: None (no entry can be read) or a dict.
TestEvl == { EmptyMap, OneMap("Eval", 30), OneMap("Lbl", 31),
             [k \in {"Eval", "Lbl"} |-> IF k = "Eval" THEN 30 ELSE 31] }

IterStatsArgs ==
  { [ c |-> [isfld |-> fl, isxmap |-> xm, isdmap |-> dm, evlmap |-> em],
      j |-> j, t |-> t, isx |-> TestIsx, isd |-> TestIsd, evl |-> ev ] :
      fl \in TestFieldLists,
      xm \in SmallMaps(TestFields, {"ObjFun", "Rho"}),
      dm \in SmallMaps(TestFields, {"Cnstr", "Rho"}),
      em \in SmallMaps(TestFields, {"Eval", "Lbl"}),
      j \in {0, 1}, t \in {40, 41}, ev \in TestEvl }

\* A caller with synthetic arguments for one iterstats() call.
InitIterStats ==
  /\ Construct(0, 0, 0, DefaultISC)
  /\ isIn \in IterStatsArgs
  /\ isOut = NoCall
  /\ optIn = NoOptArgs /\ optOut = NoOptCall

\* isc.iterstats(j, t, isx, isd, evl) on those arguments.
CallIterStats ==
  /\ ~ isOut.called
  /\ LET r == IterStats(isIn.c, isIn.j, isIn.t, isIn.isx, isIn.isd, isIn.evl)
     IN  isOut' = [called |-> TRUE, ok |-> r.ok, val |-> r.val]
  /\ UNCHANGED << isIn, optIn, optOut, drv >>

IterStatsSpec == InitIterStats /\ [][CallIterStats]_vars

\* ------------------------------------------------- BPDNDictLearn.Options(opt)
\* The default options of the two engine classes, whose values this module
\* leaves open: the refresh period and the auxiliary-variable flag vary.
BPDNEngineDefaults(per) ==
  Dict([ Verbose |-> Leaf(0), MaxMainIter |-> Leaf(1000),
         AutoRho |-> Dict([Period |-> Leaf(per)]) ])
CMODEngineDefaults(per, aux) ==
  Dict([ Verbose |-> Leaf(0), MaxMainIter |-> Leaf(1000),
         AutoRho |-> Dict([Period |-> Leaf(per)]), AuxVarObj |-> Leaf(aux) ])

\* f with the entry k -> v added.
Extend(f, k, v) == [x \in DOMAIN f \cup {k} |-> IF x = k THEN v ELSE f[x]]

\* The maps that give some of the keys K a value, key k one of S[k].
RECURSIVE PartialMaps(_, _)
PartialMaps(K, S) ==
  IF K = {} THEN {EmptyMap}
  ELSE LET k    == CHOOSE x \in K : TRUE
           rest == PartialMaps(K \ {k}, S)
       IN  rest \cup {Extend(f, k, v) : f \in rest, v \in S[k]}

\* The override mappings a caller may pass: any sub-tree of the options tree
\* above, every value differing from both kinds of default.
TestAutoRho == {Dict(m) : m \in PartialMaps({"Period"}, [Period |-> {Leaf(3)}])}
TestBPDNOpt ==
  { Dict(m) : m \in PartialMaps({"Verbose", "MaxMainIter", "AutoRho"},
                [ Verbose |-> {Leaf(1)}, MaxMainIter |-> {Leaf(5)},
                  AutoRho |-> TestAutoRho ]) }
TestCMODOpt ==
  { Dict(m) : m \in PartialMaps({"MaxMainIter", "AutoRho", "AuxVarObj"},
                [ MaxMainIter |-> {Leaf(5)}, AutoRho |-> TestAutoRho,
                  AuxVarObj |-> {Leaf(1)} ]) }
TestOpt ==
  { Dict(m) : m \in PartialMaps({"Verbose", "StatusHeader", "MaxMainIter",
                                 "BPDN", "CMOD"},
                [ Verbose |-> {Leaf(1)}, StatusHeader |-> {Leaf(0)},
                  MaxMainIter |-> {Leaf(5)}, BPDN |-> TestBPDNOpt,
                  CMOD |-> TestCMODOpt ]) }

\* A caller with an override mapping for one BPDNDictLearn.Options() call.
InitOptions ==
  /\ Construct(0, 0, 0, DefaultISC)
  /\ isIn = NoArgs /\ isOut = NoCall
  /\ optIn \in { [opt |-> t, bdef |-> BPDNEngineDefaults(p),
                  cdef |-> CMODEngineDefaults(q, a)] :
                 t \in TestOpt, p \in {1, 10}, q \in {1, 10}, a \in {0, 1} }
  /\ optOut = NoOptCall

\* BPDNDictLearn.Options(opt) on that mapping.
CallOptions ==
  /\ ~ optOut.called
  /\ optOut' = [ called |-> TRUE,
                 val |-> BPDNDLOptions(optIn.opt, optIn.bdef, optIn.cdef) ]
  /\ UNCHANGED << isIn, isOut, optIn, drv >>

OptionsSpec == InitOptions /\ [][CallOptions]_vars

\* ------------------------------------------------------------------ claims
\* The calls of one outer iteration, in the order of the loop body.
Order == << "xstep.solve", "dstep.setcoef", "dstep.solve", "xstep.setdict",
            "evaluate", "append" >>

Idle(o) == pc[o] = "idle"

\* C1: the calls solve() makes come in blocks of six, one block per outer
\* iteration, each block being xstep.solve, dstep.setcoef, dstep.solve,
\* xstep.setdict, evaluate, append in this order, all for the same iteration
\* number, and consecutive blocks are for different iterations; the step a
\* running solve() is about to take is the one after the last call made.
C1_StepOrder ==
  \A o \in Objs :
    /\ \A i \in 1 .. Len(trace[o]) :
         /\ trace[o][i].op = Order[((i - 1) % Len(Order)) + 1]
         /\ (i > 1 /\ (i - 1) % Len(Order) # 0)
              => trace[o][i].it = trace[o][i - 1].it
         /\ (i > 1 /\ (i - 1) % Len(Order) = 0)
              => trace[o][i].it # trace[o][i - 1].it
    /\ pc[o] \in {"idle", "finish"} => Len(trace[o]) % Len(Order) = 0
    /\ pc[o] = "dsolve" =>
         /\ Last(trace[o]).op = "dstep.setcoef"
         /\ Last(trace[o]).it = jloc[o].v
    /\ pc[o] = "xsolve" /\ trace[o] # << >> =>
         /\ Last(trace[o]).op = "append"
         /\ trace[o][Len(trace[o]) - 2].op = "xstep.setdict"

\* C1 witness: a solve() has run two complete outer iterations.
C1_Witness ==
  /\ Idle(1)
  /\ Len(trace[1]) = 2 * Len(Order)
  /\ calls[1] = << 2 >>

\* C2: every value handed to dstep.setcoef is the value xstep.getcoef()
\* reported right after the xstep.solve() just before it, and every value
\* handed to xstep.setdict is the value dstep.getdict() reported right after
\* the dstep.solve() just before it; the receiving engine holds that value.
C2_HandOff ==
  \A o \in Objs : \A i \in 1 .. Len(trace[o]) :
    /\ trace[o][i].op = "dstep.setcoef" =>
         /\ i > 1
         /\ trace[o][i - 1].op = "xstep.solve"
         /\ trace[o][i].val = trace[o][i - 1].val
         /\ (i = Len(trace[o]) => dstep[o].O = EngGetCoef(xstep[o]))
    /\ trace[o][i].op = "xstep.setdict" =>
         /\ i > 1
         /\ trace[o][i - 1].op = "dstep.solve"
         /\ trace[o][i].val = trace[o][i - 1].val
         /\ (i = Len(trace[o]) => xstep[o].O = EngGetDict(dstep[o]))

\* C2 witness: in a second outer iteration, coefficients were handed over that
\* differ from the ones the update engine held before.
C2_Witness ==
  /\ pc[1] = "dsolve"
  /\ jloc[1].v = 1
  /\ Last(trace[1]).op = "dstep.setcoef"
  /\ Last(trace[1]).val # trace[1][Len(trace[1]) - Len(Order)].val

\* The combined records without their Time field.
Untimed(o) ==
  [ k \in 1 .. Len(itstat[o]) |->
      [ i \in 1 .. Len(isc.isfld) |->
          IF isc.isfld[i] = "Time" THEN 0 ELSE itstat[o][k][i] ] ]

\* C3: a driver on which solve() was called with limits m1 and then m2 is in
\* the same state (counter, both engines, records up to Time) as an
\* identically constructed driver on which solve() was called once with m1+m2.
C3_SplitEqualsSingle ==
  \A o1 \in Objs, o2 \in Objs, m1 \in 0 .. MaxJ, m2 \in 0 .. MaxJ :
    ( /\ Idle(o1) /\ Idle(o2)
      /\ calls[o1] = << m1, m2 >>
      /\ calls[o2] = << m1 + m2 >> )
    => /\ jself[o1] = jself[o2]
       /\ xstep[o1] = xstep[o2]
       /\ dstep[o1] = dstep[o2]
       /\ Untimed(o1) = Untimed(o2)

\* C3 witness: one driver solved 1 then 2 iterations, the other 3 at once.
C3_Witness ==
  /\ Idle(1) /\ Idle(2)
  /\ calls[1] = << 1, 2 >>
  /\ calls[2] = << 3 >>
  /\ Len(itstat[1]) = 3

\* C4: a solve() call with MaxMainIter = 0 returns normally, returns the
\* current dictionary and changes neither the engines, nor the records, nor
\* the counter.
C4_ZeroIterSolveReturns ==
  \A o \in Objs :
    ( Idle(o) /\ lastop[o] = "solve" /\ Last(calls[o]) = 0 )
    => /\ err[o] = "none"
       /\ ret[o] = pre[o].dict
       /\ EngGetDict(dstep[o]) = pre[o].dict
       /\ Len(trace[o]) = pre[o].ntrace
       /\ Len(itstat[o]) = pre[o].nrec
       /\ jself[o] = pre[o].j

\* C5: the k-th combined record ever appended has Iter = k-1.
C5_IterConsecutive ==
  \A o \in Objs : \A k \in 1 .. Len(itstat[o]) :
    Field(isc, itstat[o][k], "Iter") = k - 1

\* C5 witness: three records, appended by two successive solve() calls.
C5_Witness ==
  /\ Idle(1)
  /\ Len(calls[1]) = 2
  /\ calls[1][1] > 0
  /\ Len(itstat[1]) = 3

\* iterstats() was called and returned a record.
Built == isOut.called /\ isOut.ok
InX(f) == f \in DOMAIN isIn.c.isxmap
InD(f) == f \in DOMAIN isIn.c.isdmap
InE(f) == f \in DOMAIN isIn.c.evlmap

\* C6: whenever iterstats() returns, the record has one value per declared
\* field, in declared order: a field named in isxmap holds the mapped field
\* of isx; a field named in isdmap and not in isxmap holds the mapped field
\* of isd; 'Iter' and 'Time', when named in none of isxmap, isdmap and
\* evlmap, hold j and t; every other field named in none of the three maps
\* holds None.
C6_MergeByPrecedence ==
  Built =>
    /\ Len(isOut.val) = Len(isIn.c.isfld)
    /\ \A i \in 1 .. Len(isIn.c.isfld) :
         LET f == isIn.c.isfld[i]
             v == isOut.val[i]
         IN  /\ InX(f) => v = isIn.isx[isIn.c.isxmap[f]]
             /\ (InD(f) /\ ~ InX(f)) => v = isIn.isd[isIn.c.isdmap[f]]
             /\ (f = "Iter" /\ ~ InX(f) /\ ~ InD(f) /\ ~ InE(f)) => v = isIn.j
             /\ (f = "Time" /\ ~ InX(f) /\ ~ InD(f) /\ ~ InE(f)) => v = isIn.t
             /\ (f \notin {"Iter", "Time"} /\ ~ InX(f) /\ ~ InD(f) /\ ~ InE(f))
                  => v = NoneVal

\* C6 witness: a record was built from a configuration that maps one field
\* through both isxmap and isdmap and leaves another field unmapped.
C6_Witness ==
  /\ Built
  /\ \E i \in 1 .. Len(isIn.c.isfld) :
       /\ InX(isIn.c.isfld[i]) /\ InD(isIn.c.isfld[i])
       /\ isOut.val[i] = TestIsx.ObjFun
  /\ \E i \in 1 .. Len(isIn.c.isfld) : isOut.val[i] = NoneVal

\* C6 as claimed: every field named in isxmap holds the isx value, every
\* field named in isdmap the isd value, 'Iter' holds j, 'Time' holds t, and
\* every field unmapped by all of these holds None.
C6_AsClaimed ==
  Built =>
    /\ Len(isOut.val) = Len(isIn.c.isfld)
    /\ \A i \in 1 .. Len(isIn.c.isfld) :
         LET f == isIn.c.isfld[i]
             v == isOut.val[i]
         IN  /\ InX(f) => v = isIn.isx[isIn.c.isxmap[f]]
             /\ InD(f) => v = isIn.isd[isIn.c.isdmap[f]]
             /\ f = "Iter" => v = isIn.j
             /\ f = "Time" => v = isIn.t
             /\ (f \notin {"Iter", "Time"} /\ ~ InX(f) /\ ~ InD(f)) => v = NoneVal

\* C7: for a field f that is a key of evlmap and of neither isxmap nor
\* isdmap, whenever evaluate() returned an entry under the label evlmap[f],
\* iterstats() returns a record whose field f holds that entry.
C7_EvalByLabel ==
  isOut.called =>
    \A i \in 1 .. Len(isIn.c.isfld) :
      LET f == isIn.c.isfld[i]
      IN  ( /\ InE(f) /\ ~ InX(f) /\ ~ InD(f)
            /\ isIn.c.evlmap[f] \in DOMAIN isIn.evl )
          => /\ isOut.ok
             /\ isOut.val[i] = isIn.evl[isIn.c.evlmap[f]]

\* The MaxMainIter of the last solve() call on driver o (0 before any call).
LastLimit(o) == IF calls[o] = << >> THEN 0 ELSE Last(calls[o])

\* The last solve() call on driver o, with limit m >= 1, has returned having
\* run exactly m outer iterations.
RanExactly(o) ==
  LET m == LastLimit(o)
  IN  /\ Idle(o)
      /\ err[o] = "none"
      /\ Len(itstat[o]) = pre[o].nrec + m
      /\ Len(xstep[o].itstat) = pre[o].xk + m
      /\ Len(dstep[o].itstat) = pre[o].dk + m
      /\ Len(trace[o]) = pre[o].ntrace + m * Len(Order)
      /\ jself[o] = pre[o].j + m

\* C8: a solve() call with MaxMainIter = m >= 1 terminates, and when it has
\* returned it has appended exactly m records, called each engine's solve()
\* exactly m times and advanced the counter by exactly m.
C8_ExactlyMaxMainIter ==
  /\ [](\A o \in Objs :
          (Idle(o) /\ LastLimit(o) >= 1) => RanExactly(o))
  /\ \A o \in Objs :
       (~ Idle(o) /\ LastLimit(o) >= 1) ~> RanExactly(o)

\* C8 witness: a second solve() call, with limit 2, has returned.
C8_Witness ==
  /\ Idle(1)
  /\ calls[1] = << 1, 2 >>
  /\ Len(itstat[1]) = 3
  /\ jself[1] = 3

\* The value last handed to xstep.setdict.
LastSetDict(o) ==
  LET I == {i \in 1 .. Len(trace[o]) : trace[o][i].op = "xstep.setdict"}
  IN  trace[o][CHOOSE i \in I : \A k \in I : k <= i].val

\* C9: getdict() returns dstep.getdict(), getcoef() returns xstep.getcoef(),
\* neither changes the driver or an engine; a solve() that returns, returns
\* dstep.getdict(), which is the dictionary last handed to xstep.setdict.
C9_Accessors ==
  /\ [](\A o \in Objs : Idle(o) =>
          /\ lastop[o] = "getdict" => ret[o] = EngGetDict(dstep[o])
          /\ lastop[o] = "getcoef" => ret[o] = EngGetCoef(xstep[o])
          /\ (lastop[o] = "solve" /\ err[o] = "none") =>
               /\ ret[o] = EngGetDict(dstep[o])
               /\ ret[o] = LastSetDict(o)
               /\ ret[o] = xstep[o].O)
  /\ [][\A o \in Objs : (GetDict(o) \/ GetCoef(o)) =>
          UNCHANGED << xstep, dstep, opt, itstat, jself, runtime, timer, pc,
                       calls, trace >>]_vars

\* C9 witness: getdict() was called after a solve() that changed the
\* dictionary, and the dictionary differs from the coefficients.
C9_Witness ==
  /\ Idle(1)
  /\ lastop[1] = "getdict"
  /\ calls[1] # << >>
  /\ EngGetDict(dstep[1]) # pre[1].dict
  /\ EngGetDict(dstep[1]) # EngGetCoef(xstep[1])

\* C10: over the whole record sequence, across solve() calls, Time never
\* decreases from one record to the next.
C10_TimeNonDecreasing ==
  \A o \in Objs : \A k \in 1 .. (Len(itstat[o]) - 1) :
    Field(isc, itstat[o][k], "Time") <= Field(isc, itstat[o][k + 1], "Time")


\* A step in which a solve() call on driver o returns to its caller.
SolveReturns(o) == pc[o] = "finish" /\ pc'[o] = "idle" /\ err'[o] = "none"

\* C11: the runtime attribute is cumulative: once construction is over it
\* equals the time construction took, a step in which solve() returns adds
\* exactly the time since that call reset the timer, and no other step
\* changes it, so it never decreases.
C11_RuntimeCumulative ==
  /\ \A o \in Objs : runtime[o] = now
  /\ [][ \A o \in Objs :
           /\ runtime'[o] >= runtime[o]
           /\ IF SolveReturns(o)
              THEN runtime'[o] = runtime[o] + (now - timer[o])
              ELSE runtime'[o] = runtime[o] ]_vars


\* The leaves of the options tree, by key path.
OptPaths ==
  { << "Verbose" >>, << "StatusHeader" >>, << "MaxMainIter" >>,
    << "BPDN", "Verbose" >>, << "BPDN", "MaxMainIter" >>,
    << "BPDN", "AutoRho", "Period" >>,
    << "CMOD", "Verbose" >>, << "CMOD", "MaxMainIter" >>,
    << "CMOD", "AutoRho", "Period" >>, << "CMOD", "AuxVarObj" >> }

\* The defaults the claim lists; for the other paths the engine's own.
ClassDefault(path) ==
  CASE path = << "Verbose" >> -> 0
    [] path = << "StatusHeader" >> -> 1
    [] path = << "MaxMainIter" >> -> 1000
    [] path \in {<< "BPDN", "MaxMainIter" >>, << "CMOD", "MaxMainIter" >>} -> 1
    [] path \in {<< "BPDN", "AutoRho", "Period" >>,
                 << "CMOD", "AutoRho", "Period" >>} -> 10
    [] path = << "CMOD", "AuxVarObj" >> -> 0
    [] path = << "BPDN", "Verbose" >> -> CDictGet(optIn.bdef, << "Verbose" >>).v
    [] path = << "CMOD", "Verbose" >> -> CDictGet(optIn.cdef, << "Verbose" >>).v

\* C12: in the configuration BPDNDictLearn.Options(opt) builds, every key
\* path present in opt reads back the value opt gives it, at any depth, and
\* every path absent from opt reads the class's default: 1 for an engine's
\* MaxMainIter, 10 for its AutoRho Period, False for CMOD's AuxVarObj, and
\* Verbose False, StatusHeader True, MaxMainIter 1000 at the top.
C12_OverridesThenDefaults ==
  optOut.called =>
    \A path \in OptPaths :
      /\ CDictHas(optOut.val, path)
      /\ CDictGet(optOut.val, path).leaf
      /\ CDictGet(optOut.val, path).v =
           IF CDictHas(optIn.opt, path)
           THEN CDictGet(optIn.opt, path).v
           ELSE ClassDefault(path)

\* An engine's MaxMainIter is overridden while its AutoRho Period is not, and
\* the engine's own defaults differ from the class's.
C12_Witness ==
  /\ optOut.called
  /\ CDictHas(optIn.opt, << "BPDN", "MaxMainIter" >>)
  /\ CDictHas(optIn.opt, << "BPDN" , "AutoRho" >>)
  /\ ~ CDictHas(optIn.opt, << "BPDN", "AutoRho", "Period" >>)
  /\ ~ CDictHas(optIn.opt, << "CMOD" >>)
  /\ CDictGet(optIn.bdef, << "AutoRho", "Period" >>).v # 10
  /\ CDictGet(optIn.cdef, << "AuxVarObj" >>).v # 0
  /\ CDictGet(optOut.val, << "BPDN", "MaxMainIter" >>).v = 5


\* The last solve() call on driver o was left by an exception raised by a
\* statement of an outer iteration.
FailedInLoop(o) == Idle(o) /\ lastop[o] = "solve" /\ err[o] = "Exception"

\* C13: when a step of an outer iteration raises, the exception leaves
\* solve() and nothing that iteration did is kept: the engines' primal
\* variables and iteration counts, the records and self.j are as they were
\* when the failing iteration began.
C13_FailureAtomic ==
  \A o \in Objs :
    FailedInLoop(o) =>
      IterSnapshot(xstep[o], dstep[o], itstat[o], jself[o]) = ipre[o]

\* C17: whenever no solve() is running on a driver, also after a solve()
\* that was left by an exception, self.j equals the number of records.
C17_CounterMatchesRecords ==
  \A o \in Objs : Idle(o) => jself[o] = Len(itstat[o])


\* A step in which driver o completes an outer iteration.
IterationCompletes(o) == pc[o] = "record" /\ pc'[o] \in {"xsolve", "finish"}

\* C14: the record list is append-only: every step of solve(), getdict(),
\* getcoef() and getitstat() leaves the records already present unchanged
\* and in place, and the list grows, by exactly one record at its end, in
\* exactly the steps that complete an outer iteration.
C14_AppendOnly ==
  [][ \A o \in Objs :
        /\ Len(itstat'[o]) >= Len(itstat[o])
        /\ SubSeq(itstat'[o], 1, Len(itstat[o])) = itstat[o]
        /\ Len(itstat'[o]) =
             Len(itstat[o]) + (IF IterationCompletes(o) THEN 1 ELSE 0) ]_vars

\* A second solve() has added records behind those of the first, and the
\* accessors have been called since.
C14_Witness ==
  /\ Idle(1) /\ lastop[1] = "getitstat"
  /\ Len(calls[1]) = 2
  /\ pre[1].nrec >= 1
  /\ Len(itstat[1]) > pre[1].nrec


\* What the claim says getitstat() returns for the records recs.
IsTranspose(r, recs) ==
  IF Len(recs) = 0
  THEN r.none
  ELSE /\ ~ r.none
       /\ Len(r.cols) = Len(isc.isfld)
       /\ \A f \in 1 .. Len(isc.isfld) :
            /\ Len(r.cols[f]) = Len(recs)
            /\ \A k \in 1 .. Len(recs) :
                 r.cols[f][k] = Field(isc, recs[k], isc.isfld[f])

\* C16: getitstat() returns None while there is no record, and otherwise
\* one tuple with an entry per field, the entry of field f being the list
\* of the values of f in the records, in the order of the records; the
\* call leaves the records as they are.
C16_GetItStatTransposes ==
  /\ [](\A o \in Objs :
          lastop[o] = "getitstat" =>
            stats[o].held /\ IsTranspose(stats[o], itstat[o]))
  /\ [][ \A o \in Objs :
           (lastop'[o] = "getitstat" /\ lastop[o] # "getitstat") =>
             /\ itstat'[o] = itstat[o]
             /\ IsTranspose(stats'[o], itstat[o]) ]_vars

\* getitstat() has returned the columns of at least two records.
C16_Witness ==
  /\ lastop[1] = "getitstat"
  /\ Len(itstat[1]) >= 2
  /\ ~ stats[1].none
  /\ stats[1].cols[1] = [k \in 1 .. Len(itstat[1]) |-> k - 1]


\* The kinds of the lines printed, in order.
Kinds(printed) == [i \in 1 .. Len(printed) |-> printed[i].kind]

\* The output the protocol prescribes for a solve() call on driver o that
\* has appended n records, before (closed = FALSE) and after its end.
Protocol(o, n, closed) ==
  LET both == opt[o].Verbose /\ opt[o].StatusHeader
  IN  (IF both THEN << "header", "separator" >> ELSE << >>)
      \o (IF opt[o].Verbose THEN [i \in 1 .. n |-> "status"] ELSE << >>)
      \o (IF both /\ closed THEN << "separator" >> ELSE << >>)

\* A step in which a solve() call on driver o ends.
SolveEnds(o) == pc[o] = "finish" /\ pc'[o] = "idle"

\* C15: the output of one solve() call is: the header and a separator,
\* once and first, iff Verbose and StatusHeader are set; then one status
\* line per record the call has appended, printed with the record, iff
\* Verbose is set; and, when the call ends, one closing separator iff
\* Verbose and StatusHeader are set.  Without Verbose nothing is printed.
C15_OutputProtocol ==
  /\ [](\A o \in Objs :
          pc[o] # "idle" =>
            Kinds(out[o]) = Protocol(o, Len(itstat[o]) - pre[o].nrec, FALSE))
  /\ [][ \A o \in Objs :
           SolveEnds(o) =>
             Kinds(out'[o]) =
               Protocol(o, Len(itstat[o]) - pre[o].nrec, TRUE) ]_vars


\* The value last handed to the engine call named op.
LastHanded(o, op) ==
  LET I == {i \in 1 .. Len(trace[o]) : trace[o][i].op = op}
  IN  trace[o][CHOOSE i \in I : \A k \in I : k <= i].val

\* Driver o stands between outer iterations: outside solve(), at the top of
\* the loop body, or behind the loop.
AtBoundary(o) == pc[o] \in {"idle", "xsolve", "finish"}

\* C18: between outer iterations the engines are synchronised: after
\* construction the dictionary the coding engine holds is the update
\* engine's dictionary variable, and once an iteration has completed the
\* dictionary last set on the coding engine is dstep.getdict() and the
\* coefficients last set on the update engine are xstep.getcoef().
C18_EnginesInSync ==
  \A o \in Objs :
    AtBoundary(o) =>
      /\ xstep[o].O = EngGetDict(dstep[o])
      /\ trace[o] # << >> =>
           /\ LastHanded(o, "xstep.setdict") = EngGetDict(dstep[o])
           /\ LastHanded(o, "dstep.setcoef") = EngGetCoef(xstep[o])
           /\ dstep[o].O = EngGetCoef(xstep[o])

\* Two iterations have completed and both engines have moved on from what
\* they were constructed with.
C18_Witness ==
  /\ Idle(1) /\ lastop[1] = "solve" /\ err[1] = "none"
  /\ Len(itstat[1]) >= 2
  /\ EngGetDict(dstep[1]) # pre[1].dict
  /\ EngGetCoef(xstep[1]) # pre[1].coef

====
